---- MODULE Spec2Model ----
(***************************************************************************)
(* B-Rep mesh kernel of antkeeper: the vertex container, the per-vertex    *)
(* circular incidence list (brep_vertex_edge_list) and the edge container  *)
(* that drives it.                                                         *)
(*                                                                         *)
(* Elements are heap objects identified by their address: a vertex is an   *)
(* element of VertexIds, an edge an element of EdgeIds, NULL is nullptr.   *)
(* Sides 0 and 1 of an edge are stored at positions 1 and 2 of its tuples, *)
(* container index k is stored at position k + 1 of the container.         *)
(***************************************************************************)
EXTENDS Integers, Sequences, FiniteSets, TLC

\* Bounds of the model.
MaxVertices == 3
MaxEdges == 3
\* Modelled width of std::size_t, in bits (reduced from 64).
SizeBits == 8

NULL == 0
VertexIds == 1..MaxVertices
EdgeIds == 1..MaxEdges
SizeModulus == 2^SizeBits

VARIABLES
    vertices,   \* vertex container: sequence of owned vertices
    edges,      \* edge container: sequence of owned edges
    vertex,     \* vertex objects: m_index and the fields of m_edges
    edge,       \* edge objects: m_index, m_vertices, m_vertex_next/previous
    last        \* the public operation that produced this state: its name, its
                \* argument, the number of edges the mesh had when it began, the
                \* size of the container it acted on, the index its argument had

vars == <<vertices, edges, vertex, edge, last>>

\* A value-initialised brep_vertex / brep_edge (also stands for freed memory).
NewVertex == [m_index |-> 0, m_vertex |-> NULL, m_head |-> NULL, m_size |-> 0]
NewEdge == [m_index |-> 0, m_vertices |-> <<NULL, NULL>>,
            m_vertex_next |-> <<NULL, NULL>>,
            m_vertex_previous |-> <<NULL, NULL>>]

\* The mesh as one value, so that member functions are operators on it.
Mesh == [vertices |-> vertices, edges |-> edges, vertex |-> vertex, edge |-> edge]

Range(s) == {s[k] : k \in 1..Len(s)}

----------------------------------------------------------------------------
(* brep_vertex_edge_list *)

\* The side taken to be 0 for every edge.
Side_Zero(m, v, e) == 0

\* The comparison made against m_vertices[0]: the index of the other endpoint.
Side_OfEndpoint0(m, v, e) == IF m.edge[e].m_vertices[1] = m.vertex[v].m_vertex THEN 1 ELSE 0

\* (e->m_vertices[1] == m_vertex) for the list owned by vertex v.
Side(m, v, e) == IF m.edge[e].m_vertices[2] = m.vertex[v].m_vertex THEN 1 ELSE 0

empty(m, v) == m.vertex[v].m_size = 0

back(m, v) ==
    LET head == m.vertex[v].m_head
    IN  m.edge[head].m_vertex_previous[Side(m, v, head) + 1]

\* Iterating edges(): begin at the head, follow "next" on this vertex's side,
\* stop after size() edges.
RECURSIVE iterate_from(_, _, _, _)
iterate_from(m, v, e, n) ==
    IF n = 0
    THEN <<>>
    ELSE <<e>> \o iterate_from(m, v, m.edge[e].m_vertex_next[Side(m, v, e) + 1], n - 1)

iterate_edges(m, v) == iterate_from(m, v, m.vertex[v].m_head, m.vertex[v].m_size)

\* push_back without line 29: the former tail's "next" is not redirected.
push_back_TailNextNotSet(m, v, e) ==
    LET i == Side(m, v, e) IN
    LET linked ==
          IF empty(m, v)
          THEN [m EXCEPT !.vertex[v].m_head = e,
                         !.edge[e].m_vertex_next[i + 1] = e,
                         !.edge[e].m_vertex_previous[i + 1] = e]
          ELSE LET head == m.vertex[v].m_head
                   j == Side(m, v, head)
                   m1 == [m EXCEPT !.edge[e].m_vertex_next[i + 1] = head]
                   m2 == [m1 EXCEPT !.edge[e].m_vertex_previous[i + 1] =
                                        m1.edge[head].m_vertex_previous[j + 1]]
               IN  [m2 EXCEPT !.edge[head].m_vertex_previous[j + 1] = e]
    IN  [linked EXCEPT !.vertex[v].m_size = (@ + 1) % SizeModulus]

\* push_back without line 30: the head's "previous" is not redirected.
push_back_HeadPreviousNotSet(m, v, e) ==
    LET i == Side(m, v, e) IN
    LET linked ==
          IF empty(m, v)
          THEN [m EXCEPT !.vertex[v].m_head = e,
                         !.edge[e].m_vertex_next[i + 1] = e,
                         !.edge[e].m_vertex_previous[i + 1] = e]
          ELSE LET head == m.vertex[v].m_head
                   j == Side(m, v, head)
                   m1 == [m EXCEPT !.edge[e].m_vertex_next[i + 1] = head]
                   m2 == [m1 EXCEPT !.edge[e].m_vertex_previous[i + 1] =
                                        m1.edge[head].m_vertex_previous[j + 1]]
                   p == m2.edge[e].m_vertex_previous[i + 1]
               IN  [m2 EXCEPT !.edge[p].m_vertex_next[Side(m2, v, p) + 1] = e]
    IN  [linked EXCEPT !.vertex[v].m_size = (@ + 1) % SizeModulus]

\* push_back with ++m_size moved into the else branch.
push_back_CountsAppendOnly(m, v, e) ==
    LET i == Side(m, v, e) IN
    IF empty(m, v)
    THEN [m EXCEPT !.vertex[v].m_head = e,
                   !.edge[e].m_vertex_next[i + 1] = e,
                   !.edge[e].m_vertex_previous[i + 1] = e]
    ELSE LET head == m.vertex[v].m_head
             j == Side(m, v, head)
             m1 == [m EXCEPT !.edge[e].m_vertex_next[i + 1] = head]
             m2 == [m1 EXCEPT !.edge[e].m_vertex_previous[i + 1] =
                                  m1.edge[head].m_vertex_previous[j + 1]]
             p == m2.edge[e].m_vertex_previous[i + 1]
             m3 == [m2 EXCEPT !.edge[p].m_vertex_next[Side(m2, v, p) + 1] = e]
             m4 == [m3 EXCEPT !.edge[head].m_vertex_previous[j + 1] = e]
         IN  [m4 EXCEPT !.vertex[v].m_size = (@ + 1) % SizeModulus]

\* push_back that also makes the new edge the head of a non-empty list.
push_back_MovesHead(m, v, e) ==
    LET i == Side(m, v, e) IN
    LET linked ==
          IF empty(m, v)
          THEN [m EXCEPT !.vertex[v].m_head = e,
                         !.edge[e].m_vertex_next[i + 1] = e,
                         !.edge[e].m_vertex_previous[i + 1] = e]
          ELSE LET head == m.vertex[v].m_head
                   j == Side(m, v, head)
                   m1 == [m EXCEPT !.edge[e].m_vertex_next[i + 1] = head]
                   m2 == [m1 EXCEPT !.edge[e].m_vertex_previous[i + 1] =
                                        m1.edge[head].m_vertex_previous[j + 1]]
                   p == m2.edge[e].m_vertex_previous[i + 1]
                   m3 == [m2 EXCEPT !.edge[p].m_vertex_next[Side(m2, v, p) + 1] = e]
               IN  [m3 EXCEPT !.edge[head].m_vertex_previous[j + 1] = e,
                              !.vertex[v].m_head = e]
    IN  [linked EXCEPT !.vertex[v].m_size = (@ + 1) % SizeModulus]

\* push_back whose empty branch leaves the edge's previous link unset.
push_back_SelfPreviousNotSet(m, v, e) ==
    LET i == Side(m, v, e) IN
    LET linked ==
          IF empty(m, v)
          THEN [m EXCEPT !.vertex[v].m_head = e,
                         !.edge[e].m_vertex_next[i + 1] = e]
          ELSE LET head == m.vertex[v].m_head
                   j == Side(m, v, head)
                   m1 == [m EXCEPT !.edge[e].m_vertex_next[i + 1] = head]
                   m2 == [m1 EXCEPT !.edge[e].m_vertex_previous[i + 1] =
                                        m1.edge[head].m_vertex_previous[j + 1]]
                   p == m2.edge[e].m_vertex_previous[i + 1]
                   m3 == [m2 EXCEPT !.edge[p].m_vertex_next[Side(m2, v, p) + 1] = e]
               IN  [m3 EXCEPT !.edge[head].m_vertex_previous[j + 1] = e]
    IN  [linked EXCEPT !.vertex[v].m_size = (@ + 1) % SizeModulus]

\* push_back whose empty branch sets the head only when the head is null.
push_back_KeepsStaleHead(m, v, e) ==
    LET i == Side(m, v, e) IN
    LET linked ==
          IF empty(m, v)
          THEN [m EXCEPT !.vertex[v].m_head = IF @ = NULL THEN e ELSE @,
                         !.edge[e].m_vertex_next[i + 1] = e,
                         !.edge[e].m_vertex_previous[i + 1] = e]
          ELSE LET head == m.vertex[v].m_head
                   j == Side(m, v, head)
                   m1 == [m EXCEPT !.edge[e].m_vertex_next[i + 1] = head]
                   m2 == [m1 EXCEPT !.edge[e].m_vertex_previous[i + 1] =
                                        m1.edge[head].m_vertex_previous[j + 1]]
                   p == m2.edge[e].m_vertex_previous[i + 1]
                   m3 == [m2 EXCEPT !.edge[p].m_vertex_next[Side(m2, v, p) + 1] = e]
               IN  [m3 EXCEPT !.edge[head].m_vertex_previous[j + 1] = e]
    IN  [linked EXCEPT !.vertex[v].m_size = (@ + 1) % SizeModulus]

\* push_back that returns at once when the edge is already linked on its side.
push_back_SkipsPresent(m, v, e) ==
    IF m.edge[e].m_vertex_next[Side(m, v, e) + 1] # NULL THEN m ELSE
    LET i == Side(m, v, e) IN
    LET linked ==
          IF empty(m, v)
          THEN [m EXCEPT !.vertex[v].m_head = e,
                         !.edge[e].m_vertex_next[i + 1] = e,
                         !.edge[e].m_vertex_previous[i + 1] = e]
          ELSE LET head == m.vertex[v].m_head
                   j == Side(m, v, head)
                   m1 == [m EXCEPT !.edge[e].m_vertex_next[i + 1] = head]
                   m2 == [m1 EXCEPT !.edge[e].m_vertex_previous[i + 1] =
                                        m1.edge[head].m_vertex_previous[j + 1]]
                   p == m2.edge[e].m_vertex_previous[i + 1]
                   m3 == [m2 EXCEPT !.edge[p].m_vertex_next[Side(m2, v, p) + 1] = e]
               IN  [m3 EXCEPT !.edge[head].m_vertex_previous[j + 1] = e]
    IN  [linked EXCEPT !.vertex[v].m_size = (@ + 1) % SizeModulus]

push_back(m, v, e) ==
    LET i == Side(m, v, e) IN
    LET linked ==
          IF empty(m, v)
          THEN [m EXCEPT !.vertex[v].m_head = e,
                         !.edge[e].m_vertex_next[i + 1] = e,
                         !.edge[e].m_vertex_previous[i + 1] = e]
          ELSE LET head == m.vertex[v].m_head
                   j == Side(m, v, head)
                   m1 == [m EXCEPT !.edge[e].m_vertex_next[i + 1] = head]
                   m2 == [m1 EXCEPT !.edge[e].m_vertex_previous[i + 1] =
                                        m1.edge[head].m_vertex_previous[j + 1]]
                   p == m2.edge[e].m_vertex_previous[i + 1]
                   m3 == [m2 EXCEPT !.edge[p].m_vertex_next[Side(m2, v, p) + 1] = e]
               IN  [m3 EXCEPT !.edge[head].m_vertex_previous[j + 1] = e]
    IN  [linked EXCEPT !.vertex[v].m_size = (@ + 1) % SizeModulus]

\* remove without lines 50-53: the head is not advanced.
remove_HeadNotAdvanced(m, v, e) ==
    LET i == Side(m, v, e)
        next == m.edge[e].m_vertex_next[i + 1]
        previous == m.edge[e].m_vertex_previous[i + 1]
        m1 == [m EXCEPT !.edge[next].m_vertex_previous[Side(m, v, next) + 1] = previous]
        m2 == [m1 EXCEPT !.edge[previous].m_vertex_next[Side(m1, v, previous) + 1] = next]
    IN  [m2 EXCEPT !.vertex[v].m_size = (@ - 1) % SizeModulus]

\* remove without line 47: the predecessor's "next" still names the removed edge.
remove_PreviousNextNotSet(m, v, e) ==
    LET i == Side(m, v, e)
        next == m.edge[e].m_vertex_next[i + 1]
        previous == m.edge[e].m_vertex_previous[i + 1]
        m1 == [m EXCEPT !.edge[next].m_vertex_previous[Side(m, v, next) + 1] = previous]
        m3 == IF m1.vertex[v].m_head = e
              THEN [m1 EXCEPT !.vertex[v].m_head = next]
              ELSE m1
    IN  [m3 EXCEPT !.vertex[v].m_size = (@ - 1) % SizeModulus]

\* remove that moves the head to the removed edge's predecessor.
remove_HeadToPrevious(m, v, e) ==
    LET i == Side(m, v, e)
        next == m.edge[e].m_vertex_next[i + 1]
        previous == m.edge[e].m_vertex_previous[i + 1]
        m1 == [m EXCEPT !.edge[next].m_vertex_previous[Side(m, v, next) + 1] = previous]
        m2 == [m1 EXCEPT !.edge[previous].m_vertex_next[Side(m1, v, previous) + 1] = next]
        m3 == IF m2.vertex[v].m_head = e
              THEN [m2 EXCEPT !.vertex[v].m_head = previous]
              ELSE m2
    IN  [m3 EXCEPT !.vertex[v].m_size = (@ - 1) % SizeModulus]

\* remove without line 46: the successor's "previous" still names the removed edge.
remove_NextPreviousNotSet(m, v, e) ==
    LET i == Side(m, v, e)
        next == m.edge[e].m_vertex_next[i + 1]
        previous == m.edge[e].m_vertex_previous[i + 1]
        m1 == m
        m2 == [m1 EXCEPT !.edge[previous].m_vertex_next[Side(m1, v, previous) + 1] = next]
        m3 == IF m2.vertex[v].m_head = e
              THEN [m2 EXCEPT !.vertex[v].m_head = next]
              ELSE m2
    IN  [m3 EXCEPT !.vertex[v].m_size = (@ - 1) % SizeModulus]

\* remove that also resets the removed edge's own links to null.
remove_ClearsRemovedLinks(m, v, e) ==
    LET i == Side(m, v, e)
        next == m.edge[e].m_vertex_next[i + 1]
        previous == m.edge[e].m_vertex_previous[i + 1]
        m1 == [m EXCEPT !.edge[next].m_vertex_previous[Side(m, v, next) + 1] = previous]
        m2 == [m1 EXCEPT !.edge[previous].m_vertex_next[Side(m1, v, previous) + 1] = next]
        m3 == IF m2.vertex[v].m_head = e
              THEN [m2 EXCEPT !.vertex[v].m_head = next]
              ELSE m2
    IN  [m3 EXCEPT !.vertex[v].m_size = (@ - 1) % SizeModulus,
                   !.edge[e].m_vertex_next[i + 1] = NULL,
                   !.edge[e].m_vertex_previous[i + 1] = NULL]

remove(m, v, e) ==
    LET i == Side(m, v, e)
        next == m.edge[e].m_vertex_next[i + 1]
        previous == m.edge[e].m_vertex_previous[i + 1]
        m1 == [m EXCEPT !.edge[next].m_vertex_previous[Side(m, v, next) + 1] = previous]
        m2 == [m1 EXCEPT !.edge[previous].m_vertex_next[Side(m1, v, previous) + 1] = next]
        m3 == IF m2.vertex[v].m_head = e
              THEN [m2 EXCEPT !.vertex[v].m_head = next]
              ELSE m2
    IN  [m3 EXCEPT !.vertex[v].m_size = (@ - 1) % SizeModulus]

----------------------------------------------------------------------------
(* brep_element_container<T> *)

\* emplace_back(): append a value-initialised element at address id.
element_emplace_back(elements, id) == Append(elements, id)

\* erase(): the last element takes the erased element's slot and index.
element_erase_indices(elements, objects, x) ==
    LET index == objects[x].m_index
        moved == elements[Len(elements)]
    IN  [objects EXCEPT ![moved].m_index = index]

element_erase_elements(elements, objects, x) ==
    LET index == objects[x].m_index
        moved == elements[Len(elements)]
    IN  SubSeq([elements EXCEPT ![index + 1] = moved], 1, Len(elements) - 1)

----------------------------------------------------------------------------
(* brep_edge_container *)

\* The new edge with its index and endpoints, before it enters any list.
edge_construct(m, id, a, b) ==
    LET m1 == [m EXCEPT !.edges = element_emplace_back(m.edges, id),
                        !.edge[id] = NewEdge]
    IN  [m1 EXCEPT !.edge[id].m_index = Len(m1.edges) - 1,
                   !.edge[id].m_vertices = <<a, b>>]

edge_emplace_back(m, id, a, b) ==
    push_back(push_back(edge_construct(m, id, a, b), a, id), b, id)

edge_erase(m, e) ==
    LET m1 == remove(m, m.edge[e].m_vertices[1], e)
        m2 == remove(m1, m1.edge[e].m_vertices[2], e)
        objs == element_erase_indices(m2.edges, m2.edge, e)
    IN  [m2 EXCEPT !.edges = element_erase_elements(m2.edges, m2.edge, e),
                   !.edge = [objs EXCEPT ![e] = NewEdge]]

----------------------------------------------------------------------------
(* brep_vertex_container *)

\* emplace_back with m_index = size() instead of size() - 1.
vertex_emplace_back_IndexIsSize(m, id) ==
    LET m1 == [m EXCEPT !.vertices = element_emplace_back(m.vertices, id),
                        !.vertex[id] = NewVertex]
    IN  [m1 EXCEPT !.vertex[id].m_index = Len(m1.vertices),
                   !.vertex[id].m_vertex = id]

\* emplace_back without line 61: m_index keeps its initial value.
vertex_emplace_back_IndexNotSet(m, id) ==
    LET m1 == [m EXCEPT !.vertices = element_emplace_back(m.vertices, id),
                        !.vertex[id] = NewVertex]
    IN  [m1 EXCEPT !.vertex[id].m_vertex = id]

vertex_emplace_back(m, id) ==
    LET m1 == [m EXCEPT !.vertices = element_emplace_back(m.vertices, id),
                        !.vertex[id] = NewVertex]
    IN  [m1 EXCEPT !.vertex[id].m_index = Len(m1.vertices) - 1,
                   !.vertex[id].m_vertex = id]

\* The cascade with "if" in place of "while": at most one edge is erased.
\* brep_element_container::erase(vertex) of line 75: the physical removal.
erase_element(m, v) ==
    LET objs == element_erase_indices(m.vertices, m.vertex, v)
    IN  [m EXCEPT !.vertices = element_erase_elements(m.vertices, m.vertex, v),
                  !.vertex = [objs EXCEPT ![v] = NewVertex]]

\* One pass of the loop body of erase() erasing the head of the list.
erase_back_edge_Head(m, v) == edge_erase(m, m.vertex[v].m_head)

\* One pass of the loop body of erase(), line 71.
erase_back_edge(m, v) == edge_erase(m, back(m, v))

\* back() taken to be the first vertex of the container.
vertices_back_Front(m) == m.vertices[1]

\* back() of the vertex container, line 82.
vertices_back(m) == m.vertices[Len(m.vertices)]

erase_edges_Once(m, v) ==
    IF ~empty(m, v) THEN edge_erase(m, back(m, v)) ELSE m

\* The cascade erasing m_mesh->edges().back() instead of vertex->edges().back().
RECURSIVE erase_edges_ContainerBack(_, _)
erase_edges_ContainerBack(m, v) ==
    IF ~empty(m, v)
    THEN erase_edges_ContainerBack(edge_erase(m, m.edges[Len(m.edges)]), v)
    ELSE m

RECURSIVE erase_edges(_, _)
erase_edges(m, v) ==
    IF ~empty(m, v) THEN erase_edges(edge_erase(m, back(m, v)), v) ELSE m

\* erase without line 75: the vertex stays in the container.
vertex_erase_ElementNotErased(m, v) == erase_edges(m, v)

\* erase with line 75 moved before the cascade: the vertex leaves the
\* container while its edges are still live.
vertex_erase_ElementErasedFirst(m, v) ==
    LET objs == element_erase_indices(m.vertices, m.vertex, v)
        m1 == [m EXCEPT !.vertices = element_erase_elements(m.vertices, m.vertex, v),
                        !.vertex = [objs EXCEPT ![v] = NewVertex]]
    IN  erase_edges(m1, v)

vertex_erase(m, v) == erase_element(erase_edges(m, v), v)

\* clear with "if" in place of "while": only the last vertex is erased.
vertex_clear_Once(m) ==
    IF Len(m.vertices) # 0
    THEN vertex_erase(m, m.vertices[Len(m.vertices)])
    ELSE m

\* clear with the loop condition size() > 1: the first vertex is kept.
RECURSIVE vertex_clear_KeepsFirst(_)
vertex_clear_KeepsFirst(m) ==
    IF Len(m.vertices) > 1
    THEN vertex_clear_KeepsFirst(vertex_erase(m, m.vertices[Len(m.vertices)]))
    ELSE m

RECURSIVE vertex_clear(_)
vertex_clear(m) ==
    IF Len(m.vertices) # 0
    THEN vertex_clear(vertex_erase(m, vertices_back(m)))
    ELSE m

\* The number of times the body of the loop of erase() (lines 69-72) runs for
\* vertex v, and of the loop of clear() (lines 80-83); counting stops at budget.
RECURSIVE erase_iterations(_, _, _)
erase_iterations(m, v, budget) ==
    IF budget = 0 \/ empty(m, v)
    THEN 0
    ELSE 1 + erase_iterations(edge_erase(m, back(m, v)), v, budget - 1)

RECURSIVE clear_iterations(_, _)
clear_iterations(m, budget) ==
    IF budget = 0 \/ Len(m.vertices) = 0
    THEN 0
    ELSE 1 + clear_iterations(vertex_erase(m, m.vertices[Len(m.vertices)]), budget - 1)

----------------------------------------------------------------------------
(* The mesh and its public operations *)

Store(m) ==
    /\ vertices' = m.vertices
    /\ edges' = m.edges
    /\ vertex' = m.vertex
    /\ edge' = m.edge

Init ==
    /\ vertices = <<>>
    /\ edges = <<>>
    /\ vertex = [id \in VertexIds |-> NewVertex]
    /\ edge = [id \in EdgeIds |-> NewEdge]
    /\ last = [op |-> "init", arg |-> NULL, edges |-> 0, size |-> 0, index |-> 0]

add_vertex ==
    /\ Len(vertices) < MaxVertices
    /\ \E id \in VertexIds \ Range(vertices) :
          /\ Store(vertex_emplace_back(Mesh, id))
          /\ last' = [op |-> "add_vertex", arg |-> id, edges |-> Len(edges),
                      size |-> Len(vertices), index |-> 0]

\* An edge references exactly two vertices: its endpoints are distinct.
add_edge ==
    /\ Len(edges) < MaxEdges
    /\ \E id \in EdgeIds \ Range(edges) :
       \E a \in Range(vertices), b \in Range(vertices) :
          /\ a # b
          /\ Store(edge_emplace_back(Mesh, id, a, b))
          /\ last' = [op |-> "add_edge", arg |-> id, edges |-> Len(edges),
                      size |-> Len(edges), index |-> 0]

erase_edge ==
    \E e \in Range(edges) :
       /\ Store(edge_erase(Mesh, e))
       /\ last' = [op |-> "erase_edge", arg |-> e, edges |-> Len(edges),
                   size |-> Len(edges), index |-> edge[e].m_index]

erase_vertex ==
    \E v \in Range(vertices) :
       /\ Store(vertex_erase(Mesh, v))
       /\ last' = [op |-> "erase_vertex", arg |-> v, edges |-> Len(edges),
                   size |-> Len(vertices), index |-> vertex[v].m_index]

clear ==
    /\ Store(vertex_clear(Mesh))
    /\ last' = [op |-> "clear", arg |-> NULL, edges |-> Len(edges),
                size |-> Len(vertices), index |-> 0]

Next ==
    \/ add_vertex
    \/ add_edge
    \/ erase_edge
    \/ erase_vertex
    \/ clear

Spec == Init /\ [][Next]_vars

\* A consumer reads the incident edges of a vertex between two operations.
iterate ==
    \E v \in Range(vertices) :
       /\ UNCHANGED <<vertices, edges, vertex, edge>>
       /\ last' = [op |-> "iterate", arg |-> v, edges |-> Len(edges),
                   size |-> Len(vertices), index |-> vertex[v].m_index,
                   out |-> iterate_edges(Mesh, v)]

NextIterate ==
    \/ Next
    \/ iterate

SpecIterate == Init /\ [][NextIterate]_vars

\* A caller breaks the precondition of remove(): edge e is live but is not
\* incident to vertex v, so v's list does not contain it.  The mesh is not
\* used any further after such a call.
remove_absent ==
    /\ last.op # "remove_absent"
    /\ \E v \in Range(vertices), e \in Range(edges) :
          /\ v # edge[e].m_vertices[1]
          /\ v # edge[e].m_vertices[2]
          /\ Store(remove(Mesh, v, e))
          /\ last' = [op |-> "remove_absent", arg |-> e, edges |-> Len(edges),
                      size |-> vertex[v].m_size, index |-> edge[e].m_index,
                      list |-> v]

use ==
    /\ last.op # "remove_absent"
    /\ Next

NextMisuse ==
    \/ use
    \/ remove_absent

SpecMisuse == Init /\ [][NextMisuse]_vars

\* A caller passes the same live vertex as both endpoints of a new edge.  The
\* mesh is not used any further after such a call.
add_loop ==
    /\ last.op # "add_loop"
    /\ Len(edges) < MaxEdges
    /\ \E id \in EdgeIds \ Range(edges) :
       \E a \in Range(vertices) :
          /\ Store(edge_emplace_back(Mesh, id, a, a))
          /\ last' = [op |-> "add_loop", arg |-> id, edges |-> Len(edges),
                      size |-> Len(edges), index |-> 0]

sound ==
    /\ last.op # "add_loop"
    /\ Next

NextLoop ==
    \/ sound
    \/ add_loop

SpecLoop == Init /\ [][NextLoop]_vars

----------------------------------------------------------------------------
(* erase(vertex) and clear() of the vertex container, one statement at a time *)

\* Where a stepwise call stands is kept in last.op: erase_call / clear_erase
\* when erase(last.arg) has been entered, erase_cascade / clear_cascade after a
\* pass of its loop, clear_call when clear() has been entered, clear_erased
\* when an erase() made by clear() has returned.
InErase == last.op \in {"erase_call", "erase_cascade", "clear_erase", "clear_cascade"}
InClear == last.op \in {"clear_erase", "clear_cascade"}
AtClearLoop == last.op \in {"clear_call", "clear_erased"}
Idle == ~InErase /\ ~AtClearLoop

Step(op, arg) ==
    [op |-> op, arg |-> arg, edges |-> Len(edges), size |-> Len(vertices),
     index |-> IF arg = NULL THEN 0 ELSE vertex[arg].m_index]

\* The public operations that are not split, between two stepwise calls.
idle_add_vertex == Idle /\ add_vertex
idle_add_edge == Idle /\ add_edge
idle_erase_edge == Idle /\ erase_edge

\* erase(vertex) is entered (line 66).
erase_call ==
    /\ Idle
    /\ \E v \in Range(vertices) :
          /\ UNCHANGED <<vertices, edges, vertex, edge>>
          /\ last' = Step("erase_call", v)

\* Lines 69-72: the loop condition holds and the body runs once.
erase_cascade ==
    /\ InErase
    /\ ~empty(Mesh, last.arg)
    /\ Store(erase_back_edge(Mesh, last.arg))
    /\ last' = Step(IF InClear THEN "clear_cascade" ELSE "erase_cascade", last.arg)

\* erase_remove entered whatever the loop condition says.
erase_remove_AnyTime ==
    /\ InErase
    /\ Store(erase_element(Mesh, last.arg))
    /\ last' = Step(IF InClear THEN "clear_erased" ELSE "erase_done", last.arg)

\* Line 75: the loop condition fails, the vertex leaves the container and
\* erase() returns.
erase_remove ==
    /\ InErase
    /\ empty(Mesh, last.arg)
    /\ Store(erase_element(Mesh, last.arg))
    /\ last' = Step(IF InClear THEN "clear_erased" ELSE "erase_done", last.arg)

\* clear() is entered (line 78).
clear_call ==
    /\ Idle
    /\ UNCHANGED <<vertices, edges, vertex, edge>>
    /\ last' = Step("clear_call", NULL)

\* Lines 80-83: the container is not empty and erase(back()) is entered.
clear_erase ==
    /\ AtClearLoop
    /\ Len(vertices) # 0
    /\ UNCHANGED <<vertices, edges, vertex, edge>>
    /\ last' = Step("clear_erase", vertices_back(Mesh))

\* Line 80: the container is empty and clear() returns.
clear_return ==
    /\ AtClearLoop
    /\ Len(vertices) = 0
    /\ UNCHANGED <<vertices, edges, vertex, edge>>
    /\ last' = Step("clear_done", NULL)

NextSteps ==
    \/ idle_add_vertex
    \/ idle_add_edge
    \/ idle_erase_edge
    \/ erase_call
    \/ erase_cascade
    \/ erase_remove
    \/ clear_call
    \/ clear_erase
    \/ clear_return

SpecSteps == Init /\ [][NextSteps]_vars

----------------------------------------------------------------------------
(* Observations used by the properties *)

LiveVertices == Range(vertices)
LiveEdges == Range(edges)

\* The endpoints of an edge, and the live edges that have v as an endpoint.
Endpoints(m, e) == {m.edge[e].m_vertices[1], m.edge[e].m_vertices[2]}
Incident(m, v) == {e \in Range(m.edges) : v \in Endpoints(m, e)}

\* The side of edge e whose endpoint is v (for an edge incident to v).
VSide(m, v, e) == IF m.edge[e].m_vertices[1] = v THEN 0 ELSE 1

NextOn(m, v, e) ==
    IF e \in EdgeIds THEN m.edge[e].m_vertex_next[VSide(m, v, e) + 1] ELSE NULL
PreviousOn(m, v, e) ==
    IF e \in EdgeIds THEN m.edge[e].m_vertex_previous[VSide(m, v, e) + 1] ELSE NULL

\* The n edges met from e by following "next" on v's side, and where that ends.
RECURSIVE Walk(_, _, _, _)
Walk(m, v, e, n) ==
    IF n = 0 THEN <<>> ELSE <<e>> \o Walk(m, v, NextOn(m, v, e), n - 1)

RECURSIVE Advance(_, _, _, _)
Advance(m, v, e, n) ==
    IF n = 0 THEN e ELSE Advance(m, v, NextOn(m, v, e), n - 1)

\* Iterating vertex.edges(): edge_count() edges, starting at the head.
Edges(m, v) == Walk(m, v, m.vertex[v].m_head, m.vertex[v].m_size)
EdgeCount(m, v) == m.vertex[v].m_size

----------------------------------------------------------------------------
(* Properties *)

\* C1. Circular list integrity: for every live vertex with edge count n > 0,
\* following "next" on the vertex's side n times from the head edge returns to
\* the head edge, and the n edges visited on the way are pairwise distinct.
C1_CircularListIntegrity ==
    \A v \in LiveVertices :
        LET n == EdgeCount(Mesh, v)
            head == vertex[v].m_head
        IN  n > 0 =>
              /\ Advance(Mesh, v, head, n) = head
              /\ Cardinality(Range(Edges(Mesh, v))) = n

\* A vertex holds a list of three edges that closes on its head.
C1_Witness ==
    \E v \in LiveVertices :
        /\ EdgeCount(Mesh, v) = 3
        /\ Advance(Mesh, v, vertex[v].m_head, 3) = vertex[v].m_head
        /\ Cardinality(Range(Edges(Mesh, v))) = 3

\* C2. Mutual link symmetry: for every live vertex v and every edge A of v's
\* list, the edge after A on v's side has A as its predecessor on v's side, and
\* the edge before A on v's side has A as its successor on v's side.
C2_MutualLinkSymmetry ==
    \A v \in LiveVertices :
        \A A \in Range(Edges(Mesh, v)) :
            /\ PreviousOn(Mesh, v, NextOn(Mesh, v, A)) = A
            /\ NextOn(Mesh, v, PreviousOn(Mesh, v, A)) = A

\* A list of three edges in which the vertex is side 0 of one edge and side 1
\* of the next one, so that the two linked edges use different sides.
C2_Witness ==
    \E v \in LiveVertices :
        /\ EdgeCount(Mesh, v) = 3
        /\ \E A \in Range(Edges(Mesh, v)) :
              /\ NextOn(Mesh, v, A) # A
              /\ VSide(Mesh, v, A) # VSide(Mesh, v, NextOn(Mesh, v, A))
              /\ PreviousOn(Mesh, v, NextOn(Mesh, v, A)) = A

\* C3. The edge count of every live vertex equals the number of live edges
\* that have the vertex as endpoint 0 or endpoint 1.
C3_CountEqualsIncidence ==
    \A v \in LiveVertices :
        EdgeCount(Mesh, v) = Cardinality(Incident(Mesh, v))

\* After an edge was erased, a vertex still counts two edges and another one.
C3_Witness ==
    /\ last.op = "erase_edge"
    /\ \E v, u \in LiveVertices :
          /\ EdgeCount(Mesh, v) = 2 /\ Cardinality(Incident(Mesh, v)) = 2
          /\ EdgeCount(Mesh, u) = 1 /\ Cardinality(Incident(Mesh, u)) = 1

\* C4. Incidence completeness: for every live vertex v, the edges met by
\* walking v's list from its head are exactly the live edges that have v as an
\* endpoint.
C4_IncidenceCompleteness ==
    \A v \in LiveVertices :
        Range(Edges(Mesh, v)) = Incident(Mesh, v)

\* The triangle: every one of three vertices lists its two edges, and no
\* vertex lists the edge opposite to it.
C4_Witness ==
    /\ Len(vertices) = 3
    /\ Len(edges) = 3
    /\ \A v \in LiveVertices :
          /\ Cardinality(Incident(Mesh, v)) = 2
          /\ Range(Edges(Mesh, v)) = Incident(Mesh, v)

\* s and t hold the same elements in the same circular order.
IsRotation(s, t) ==
    /\ Len(s) = Len(t)
    /\ \/ Len(s) = 0
       \/ \E k \in 0..(Len(s) - 1) :
             \A i \in 1..Len(s) : s[i] = t[((i - 1 + k) % Len(s)) + 1]

\* The edges of u's list, in list order, that do not have v as an endpoint.
EdgesAvoiding(m, u, v) ==
    LET Keep(e) == e \notin Incident(m, v)
    IN  SelectSeq(Edges(m, u), Keep)

\* C5. Cascading erase completeness: after erase_vertex(v), v is not in the
\* vertex container and no remaining edge has v as an endpoint; and after every
\* public operation both endpoints of every live edge are live vertices.
C5_CascadingEraseCompleteness ==
    [][ /\ last'.op = "erase_vertex" =>
              LET v == last'.arg
              IN  /\ v \in Range(vertices)
                  /\ v \notin Range(vertices')
                  /\ \A e \in Range(edges') : v \notin Endpoints(Mesh', e)
        /\ \A e \in Range(edges') : Endpoints(Mesh', e) \subseteq Range(vertices')
      ]_vars

\* erase_vertex on the triangle: two edges went with the vertex, one is left.
C5_Witness ==
    /\ last.op = "erase_vertex"
    /\ last.edges = 3
    /\ Len(edges) = 1
    /\ Len(vertices) = 2
    /\ last.arg \notin LiveVertices

\* C6. erase_vertex(v) erases exactly the edges incident to v: the live edges
\* afterwards are the former live edges not incident to v, with their
\* endpoints; exactly v leaves the vertex container; and the list of every other
\* vertex u loses as many edges as joined u and v and keeps its remaining edges
\* in the same circular order.
C6_EraseVertexFrame ==
    [][ last'.op = "erase_vertex" =>
          LET v == last'.arg
          IN  /\ Range(edges') = Range(edges) \ Incident(Mesh, v)
              /\ \A e \in Range(edges') : edge'[e].m_vertices = edge[e].m_vertices
              /\ Len(vertices') = Len(vertices) - 1
              /\ Range(vertices') = Range(vertices) \ {v}
              /\ \A u \in Range(vertices) \ {v} :
                    /\ EdgeCount(Mesh', u) = EdgeCount(Mesh, u)
                          - Cardinality(Incident(Mesh, u) \cap Incident(Mesh, v))
                    /\ IsRotation(Edges(Mesh', u), EdgesAvoiding(Mesh, u, v))
      ]_vars

\* erase_vertex took one of three edges with it and left a vertex whose list
\* still holds two edges.
C6_Witness ==
    /\ last.op = "erase_vertex"
    /\ last.edges = 3
    /\ Len(edges) = 2
    /\ Len(vertices) = 2
    /\ \E u \in LiveVertices : Len(Edges(Mesh, u)) = 2 /\ Range(Edges(Mesh, u)) = LiveEdges

\* C7. erase_edge(e) with endpoints a and b: afterwards neither a's nor b's
\* list contains e, both edge counts are one less, e is not in the edge
\* container, and the list of every other vertex is unchanged.
C7_EraseEdge ==
    [][ last'.op = "erase_edge" =>
          LET e == last'.arg
              a == edge[e].m_vertices[1]
              b == edge[e].m_vertices[2]
          IN  /\ e \in Range(edges)
              /\ e \notin Range(Edges(Mesh', a))
              /\ e \notin Range(Edges(Mesh', b))
              /\ EdgeCount(Mesh', a) = EdgeCount(Mesh, a) - 1
              /\ EdgeCount(Mesh', b) = EdgeCount(Mesh, b) - 1
              /\ e \notin Range(edges')
              /\ \A u \in Range(vertices) \ {a, b} :
                    /\ vertex'[u] = vertex[u]
                    /\ Edges(Mesh', u) = Edges(Mesh, u)
      ]_vars

\* erase_edge on the triangle: two vertices are left with one edge each, the
\* third vertex still has two.
C7_Witness ==
    /\ last.op = "erase_edge"
    /\ last.edges = 3
    /\ Len(vertices) = 3
    /\ last.arg \notin LiveEdges
    /\ \E a, b, u \in LiveVertices :
          /\ a # b
          /\ EdgeCount(Mesh, a) = 1
          /\ EdgeCount(Mesh, b) = 1
          /\ EdgeCount(Mesh, u) = 2

\* C8. add_edge(v0, v1): both edge counts grow by one, the new edge is in both
\* circular lists, its side-0 links lead into v0's list and its side-1 links
\* into v1's list, and the list of every other vertex is unchanged.
C8_AddEdge ==
    [][ last'.op = "add_edge" =>
          LET e == last'.arg
              v0 == edge'[e].m_vertices[1]
              v1 == edge'[e].m_vertices[2]
          IN  /\ {v0, v1} \subseteq Range(vertices)
              /\ EdgeCount(Mesh', v0) = EdgeCount(Mesh, v0) + 1
              /\ EdgeCount(Mesh', v1) = EdgeCount(Mesh, v1) + 1
              /\ e \in Range(Edges(Mesh', v0))
              /\ e \in Range(Edges(Mesh', v1))
              /\ edge'[e].m_vertex_next[1] \in Range(Edges(Mesh', v0))
              /\ edge'[e].m_vertex_previous[1] \in Range(Edges(Mesh', v0))
              /\ edge'[e].m_vertex_next[2] \in Range(Edges(Mesh', v1))
              /\ edge'[e].m_vertex_previous[2] \in Range(Edges(Mesh', v1))
              /\ \A u \in Range(vertices) \ {v0, v1} :
                    /\ vertex'[u] = vertex[u]
                    /\ Edges(Mesh', u) = Edges(Mesh, u)
      ]_vars

\* add_edge closed the triangle: the new edge joins two vertices that each had
\* one edge to the third vertex, so its two sides link to different edges.
C8_Witness ==
    /\ last.op = "add_edge"
    /\ last.edges = 2
    /\ Len(edges) = 3
    /\ \A v \in LiveVertices : EdgeCount(Mesh, v) = 2
    /\ edge[last.arg].m_vertex_next[1] # last.arg
    /\ edge[last.arg].m_vertex_next[2] # last.arg
    /\ edge[last.arg].m_vertex_next[1] # edge[last.arg].m_vertex_next[2]

\* C9. add_vertex appends a new vertex with zero incident edges, whose index
\* is the container size before the call and whose edge list is owned by it;
\* every existing vertex and edge is unchanged.
C9_AddVertex ==
    [][ last'.op = "add_vertex" =>
          LET v == last'.arg
          IN  /\ v \notin Range(vertices)
              /\ vertices' = Append(vertices, v)
              /\ Len(vertices') = Len(vertices) + 1
              /\ EdgeCount(Mesh', v) = 0
              /\ Edges(Mesh', v) = <<>>
              /\ vertex'[v].m_index = Len(vertices)
              /\ vertex'[v].m_vertex = v
              /\ \A u \in Range(vertices) : vertex'[u] = vertex[u]
              /\ edges' = edges
              /\ edge' = edge
      ]_vars

\* add_vertex added a third vertex to a mesh that already had an edge.
C9_Witness ==
    /\ last.op = "add_vertex"
    /\ Len(vertices) = 3
    /\ Len(edges) >= 1
    /\ vertices[3] = last.arg
    /\ vertex[last.arg].m_index = 2
    /\ vertex[last.arg].m_size = 0

\* C10. A live vertex whose edge count is zero has an empty (null) head.
C10_EmptyListHasNullHead ==
    \A v \in LiveVertices :
        EdgeCount(Mesh, v) = 0 => vertex[v].m_head = NULL

\* The edges of v's list, in list order, other than x.
EdgesWithout(m, v, x) ==
    LET Keep(e) == e # x
    IN  SelectSeq(Edges(m, v), Keep)

\* C11. Index stability under erase: when the erased element x was not the
\* last of its container, the element that was last takes x's index and slot,
\* every other surviving element keeps its index, and the links that name the
\* relocated element (endpoints, heads, list neighbours, its own list) still
\* lead to it.
C11_IndexStabilityUnderErase ==
    [][ /\ last'.op = "erase_vertex" =>
              LET x == last'.arg
                  moved == vertices[Len(vertices)]
              IN  moved # x =>
                    /\ vertex'[moved].m_index = vertex[x].m_index
                    /\ vertices'[vertex[x].m_index + 1] = moved
                    /\ \A u \in Range(vertices) \ {x, moved} :
                          /\ vertex'[u].m_index = vertex[u].m_index
                          /\ vertices'[vertex[u].m_index + 1] = u
                    /\ vertex'[moved].m_vertex = moved
                    /\ \A e \in Range(edges') : edge'[e].m_vertices = edge[e].m_vertices
                    /\ Edges(Mesh', moved) = EdgesAvoiding(Mesh, moved, x)
        /\ last'.op = "erase_edge" =>
              LET x == last'.arg
                  moved == edges[Len(edges)]
              IN  moved # x =>
                    /\ edge'[moved].m_index = edge[x].m_index
                    /\ edges'[edge[x].m_index + 1] = moved
                    /\ \A e \in Range(edges) \ {x, moved} :
                          /\ edge'[e].m_index = edge[e].m_index
                          /\ edges'[edge[e].m_index + 1] = e
                    /\ edge'[moved].m_vertices = edge[moved].m_vertices
                    /\ \A v \in Range(vertices) :
                          /\ Edges(Mesh', v) = EdgesWithout(Mesh, v, x)
                          /\ vertex[v].m_head = moved => vertex'[v].m_head = moved
                    /\ \A s \in 1..2 :
                          /\ edge[moved].m_vertex_next[s] # x =>
                                edge'[moved].m_vertex_next[s] = edge[moved].m_vertex_next[s]
                          /\ edge[moved].m_vertex_previous[s] # x =>
                                edge'[moved].m_vertex_previous[s] = edge[moved].m_vertex_previous[s]
      ]_vars

\* The first of three vertices was erased from a triangle: the former last
\* vertex now has index 0 and still lists its remaining edge.
C11_Witness ==
    /\ last.op = "erase_vertex"
    /\ last.size = 3
    /\ last.index = 0
    /\ last.edges = 3
    /\ Len(vertices) = 2
    /\ vertex[vertices[1]].m_index = 0
    /\ Len(edges) = 1
    /\ Edges(Mesh, vertices[1]) = edges

\* C12. Dense indices: the elements of a container are pairwise distinct and
\* the element stored at position k has index k, for the vertex container and
\* for the edge container.
C12_DenseIndices ==
    /\ Cardinality(Range(vertices)) = Len(vertices)
    /\ \A k \in 1..Len(vertices) : vertex[vertices[k]].m_index = k - 1
    /\ Cardinality(Range(edges)) = Len(edges)
    /\ \A k \in 1..Len(edges) : edge[edges[k]].m_index = k - 1

\* An element was appended after an erase had relocated the last element into
\* slot 0: three elements, indices 0, 1, 2.
C12_Witness ==
    /\ last.op = "add_vertex"
    /\ Len(vertices) = 3
    /\ vertices[1] > vertices[2]
    /\ Len(edges) = 2
    /\ \A k \in 1..3 : vertex[vertices[k]].m_index = k - 1

C14_ClearIdempotent ==
    [][ last'.op = "clear" =>
          /\ Len(vertices) = 0 => Mesh' = Mesh
          /\ Len(vertices') = 0
          /\ vertex_clear(Mesh') = Mesh'
      ]_vars

\* clear() ran on a mesh that was already empty.
C14_Witness ==
    /\ last.op = "clear"
    /\ last.size = 0
    /\ last.edges = 0
    /\ Len(vertices) = 0
    /\ Len(edges) = 0

\* C15. Iterating vertex.edges() is a pure read: it yields edge_count() edges,
\* each incident edge exactly once, starting at the head and in circular list
\* order; it changes no vertex, edge or list; and iterating again yields the
\* same sequence.
C15_IterationIsPureRead ==
    [][ last'.op = "iterate" =>
          LET v == last'.arg
              out == last'.out
          IN  /\ Mesh' = Mesh
              /\ Len(out) = EdgeCount(Mesh, v)
              /\ Cardinality(Range(out)) = Len(out)
              /\ Range(out) = Incident(Mesh, v)
              /\ Len(out) > 0 => out[1] = vertex[v].m_head
              /\ \A k \in 1..(Len(out) - 1) : out[k + 1] = NextOn(Mesh, v, out[k])
              /\ iterate_edges(Mesh', v) = out
      ]_vars

\* An iteration yielded three edges, the vertex being side 0 of one of them
\* and side 1 of the one after it.
C15_Witness ==
    /\ last.op = "iterate"
    /\ Len(last.out) = 3
    /\ \E k \in 1..2 :
          VSide(Mesh, last.arg, last.out[k]) # VSide(Mesh, last.arg, last.out[k + 1])

\* C16. A precondition violation is never silently carried out: remove() of
\* an edge from a list that does not contain it changes no link, no head and
\* no size counter.
C16_ViolationChangesNothing ==
    [][ last'.op = "remove_absent" =>
          /\ vertex' = vertex
          /\ edge' = edge
      ]_vars

\* C17. The loops terminate: in every reachable state the loop of
\* erase(vertex) runs exactly once per incident edge of the vertex, each pass
\* making the list one edge shorter, and the loop of clear() runs exactly once
\* per vertex of the container.
C17_LoopsTerminate ==
    /\ \A v \in LiveVertices :
          /\ erase_iterations(Mesh, v, MaxEdges + 1) = Cardinality(Incident(Mesh, v))
          /\ ~empty(Mesh, v) =>
                EdgeCount(edge_erase(Mesh, back(Mesh, v)), v) = EdgeCount(Mesh, v) - 1
    /\ clear_iterations(Mesh, MaxVertices + 1) = Len(vertices)

\* Three vertices, one of them with three incident edges: its erase loop runs
\* three times and the clear loop three times.
C17_Witness ==
    /\ Len(vertices) = 3
    /\ clear_iterations(Mesh, MaxVertices + 1) = 3
    /\ \E v \in LiveVertices :
          /\ Cardinality(Incident(Mesh, v)) = 3
          /\ erase_iterations(Mesh, v, MaxEdges + 1) = 3

\* What a call on the list of v that involves the edges in xs leaves alone
\* between mesh m and mesh n: the containers, every other vertex, the index and
\* owner of v, every edge outside xs, the index and endpoints of every edge,
\* every link on a side whose endpoint is not v, and the list of every other
\* vertex.
ListFrame(m, n, v, xs) ==
    /\ n.vertices = m.vertices
    /\ n.edges = m.edges
    /\ \A u \in VertexIds \ {v} : n.vertex[u] = m.vertex[u]
    /\ n.vertex[v].m_index = m.vertex[v].m_index
    /\ n.vertex[v].m_vertex = m.vertex[v].m_vertex
    /\ \A x \in EdgeIds \ xs : n.edge[x] = m.edge[x]
    /\ \A x \in EdgeIds :
          /\ n.edge[x].m_index = m.edge[x].m_index
          /\ n.edge[x].m_vertices = m.edge[x].m_vertices
          /\ \A s \in 1..2 :
                m.edge[x].m_vertices[s] # v =>
                  /\ n.edge[x].m_vertex_next[s] = m.edge[x].m_vertex_next[s]
                  /\ n.edge[x].m_vertex_previous[s] = m.edge[x].m_vertex_previous[s]
    /\ \A u \in Range(m.vertices) \ {v} : Edges(n, u) = Edges(m, u)

\* The edges of the list of v that an insertion relinks: its head and tail.
Involved(m, v) ==
    IF m.vertex[v].m_size = 0
    THEN {}
    ELSE {m.vertex[v].m_head, PreviousOn(m, v, m.vertex[v].m_head)}

\* C18. Independence of the two memberships of an edge: in every reachable
\* state, remove() of an edge from the list of one of its endpoints v, and each
\* of the two push_back() calls of an edge insertion, write only v's head and
\* size and links on v's side of edges; links on the other endpoint's side and
\* the lists of all other vertices are unchanged.
C18_MembershipsIndependent ==
    /\ \A e \in LiveEdges :
          \A v \in Endpoints(Mesh, e) :
              ListFrame(Mesh, remove(Mesh, v, e), v,
                        {e, NextOn(Mesh, v, e), PreviousOn(Mesh, v, e)})
    /\ \A id \in EdgeIds \ LiveEdges :
          \A a \in LiveVertices : \A b \in LiveVertices \ {a} :
              LET m0 == edge_construct(Mesh, id, a, b)
                  m1 == push_back(m0, a, id)
                  m2 == push_back(m1, b, id)
              IN  /\ ListFrame(m0, m1, a, {id} \cup Involved(m0, a))
                  /\ ListFrame(m1, m2, b, {id} \cup Involved(m1, b))

\* An edge was erased that joined a vertex to one of two vertices linked by
\* two parallel edges: the remove() on the three-edge list left the other
\* vertex's two-edge list as it was.
C18_Witness ==
    /\ last.op = "erase_edge"
    /\ last.edges = 3
    /\ Len(vertices) = 3
    /\ \E u, v, w \in LiveVertices :
          /\ EdgeCount(Mesh, u) = 0
          /\ v # w
          /\ Len(Edges(Mesh, v)) = 2
          /\ Len(Edges(Mesh, w)) = 2
          /\ Range(Edges(Mesh, v)) = Range(Edges(Mesh, w))

\* C19. push_back on a non-empty list, as performed by add_edge on an endpoint
\* that already has edges: the head is unchanged, the new edge's next on that
\* endpoint's side is the head and its previous is the former tail, the former
\* tail's next and the head's previous are the new edge, the size grows by one,
\* and the walk from the head is the former walk followed by the new edge.
C19_SpliceBeforeHead ==
    [][ last'.op = "add_edge" =>
          LET e == last'.arg
          IN  \A v \in Range(edge'[e].m_vertices) :
                vertex[v].m_size # 0 =>
                  LET head == vertex[v].m_head
                      tail == PreviousOn(Mesh, v, head)
                  IN  /\ vertex'[v].m_head = head
                      /\ NextOn(Mesh', v, e) = head
                      /\ PreviousOn(Mesh', v, e) = tail
                      /\ NextOn(Mesh', v, tail) = e
                      /\ PreviousOn(Mesh', v, head) = e
                      /\ vertex'[v].m_size = vertex[v].m_size + 1
                      /\ Edges(Mesh', v) = Append(Edges(Mesh, v), e)
      ]_vars

\* add_edge pushed a third edge onto a list: the walk from the unchanged head
\* ends with the new edge, behind the two edges pushed earlier.
C19_Witness ==
    /\ last.op = "add_edge"
    /\ \E v \in Range(edge[last.arg].m_vertices) :
          /\ Len(Edges(Mesh, v)) = 3
          /\ Edges(Mesh, v)[3] = last.arg
          /\ vertex[v].m_head = Edges(Mesh, v)[1]
          /\ vertex[v].m_head # last.arg
          /\ PreviousOn(Mesh, v, vertex[v].m_head) = last.arg
          /\ NextOn(Mesh, v, Edges(Mesh, v)[2]) = last.arg

\* A push of edge e onto the empty list of v, from mesh m to mesh n: e is the
\* head, its own next and its own previous on v's side, the size is 1, and
\* the links on e's other side are as before.
EmptyPush(m, n, v, e) ==
    LET s == VSide(m, v, e) + 1
        o == 3 - s
    IN  /\ n.vertex[v].m_head = e
        /\ n.edge[e].m_vertex_next[s] = e
        /\ n.edge[e].m_vertex_previous[s] = e
        /\ n.vertex[v].m_size = 1
        /\ n.edge[e].m_vertex_next[o] = m.edge[e].m_vertex_next[o]
        /\ n.edge[e].m_vertex_previous[o] = m.edge[e].m_vertex_previous[o]

\* C20. push_back on an empty list: in every reachable state, for every edge
\* that can be inserted, a push onto an endpoint's empty list makes the edge
\* the head and its own successor and predecessor on that endpoint's side and
\* sets the size to 1, and leaves the edge's links on its other side alone.
C20_PushOnEmptyList ==
    \A id \in EdgeIds \ LiveEdges :
        \A a \in LiveVertices : \A b \in LiveVertices \ {a} :
            LET m0 == edge_construct(Mesh, id, a, b)
                m1 == push_back(m0, a, id)
                m2 == push_back(m1, b, id)
            IN  /\ m0.vertex[a].m_size = 0 => EmptyPush(m0, m1, a, id)
                /\ m1.vertex[b].m_size = 0 => EmptyPush(m1, m2, b, id)

\* add_edge joined a vertex that had two edges to a vertex that had none: the
\* new edge is alone in its second endpoint's list, while its side-0 links
\* lead to the other edges of its first endpoint.
C20_Witness ==
    /\ last.op = "add_edge"
    /\ LET e == last.arg
           v0 == edge[e].m_vertices[1]
           v1 == edge[e].m_vertices[2]
       IN  /\ vertex[v1].m_head = e
           /\ vertex[v1].m_size = 1
           /\ edge[e].m_vertex_next[2] = e
           /\ edge[e].m_vertex_previous[2] = e
           /\ vertex[v0].m_size = 3
           /\ edge[e].m_vertex_next[1] # e
           /\ edge[e].m_vertex_previous[1] # e
           /\ edge[e].m_vertex_next[1] # edge[e].m_vertex_previous[1]

\* C21. remove(edge) on a list with at least two edges: in every reachable
\* state, for every vertex with two or more edges and every edge of its list,
\* removing the head makes the edge's former successor on this vertex's side
\* the head, removing any other edge leaves the head unchanged, and in both
\* cases the size is one less.
C21_RemoveHeadRule ==
    \A v \in LiveVertices :
        vertex[v].m_size >= 2 =>
          \A e \in Incident(Mesh, v) :
              LET n == remove(Mesh, v, e)
              IN  /\ vertex[v].m_head = e => n.vertex[v].m_head = NextOn(Mesh, v, e)
                  /\ vertex[v].m_head # e => n.vertex[v].m_head = vertex[v].m_head
                  /\ n.vertex[v].m_size = vertex[v].m_size - 1

\* A vertex has three edges: removing its head moves the head on to the edge
\* that is neither the old head nor its predecessor, removing the middle edge
\* or the tail keeps the head, and each removal leaves two edges.
C21_Witness ==
    \E v \in LiveVertices :
        LET head == vertex[v].m_head
            middle == NextOn(Mesh, v, head)
            tail == PreviousOn(Mesh, v, head)
        IN  /\ vertex[v].m_size = 3
            /\ Cardinality({head, middle, tail}) = 3
            /\ remove(Mesh, v, head).vertex[v].m_head = middle
            /\ remove(Mesh, v, middle).vertex[v].m_head = head
            /\ remove(Mesh, v, tail).vertex[v].m_head = head
            /\ remove(Mesh, v, head).vertex[v].m_size = 2

\* C22. remove(edge) bypasses only the removed edge: in every reachable state,
\* for every vertex with two or more edges and every edge e of its list, after
\* the removal e's former predecessor and former successor on this vertex's
\* side are linked to each other, no edge other than those two is written, and
\* the walk from the head is the former walk without e, closing on the head in
\* both directions.
C22_RemoveBypasses ==
    \A v \in LiveVertices :
        vertex[v].m_size >= 2 =>
          \A e \in Incident(Mesh, v) :
              LET n == remove(Mesh, v, e)
                  p == PreviousOn(Mesh, v, e)
                  x == NextOn(Mesh, v, e)
              IN  /\ NextOn(n, v, p) = x
                  /\ PreviousOn(n, v, x) = p
                  /\ \A y \in EdgeIds \ {p, x} : n.edge[y] = edge[y]
                  /\ Edges(n, v) = EdgesWithout(Mesh, v, e)
                  /\ Len(Edges(n, v)) = Len(Edges(Mesh, v)) - 1
                  /\ Advance(n, v, n.vertex[v].m_head, n.vertex[v].m_size) = n.vertex[v].m_head
                  /\ \A y \in Range(Edges(n, v)) : PreviousOn(n, v, NextOn(n, v, y)) = y

\* A vertex has three edges: removing the middle one links the head and the
\* tail to each other in both directions and leaves the walk head, tail.
C22_Witness ==
    \E v \in LiveVertices :
        LET head == vertex[v].m_head
            middle == NextOn(Mesh, v, head)
            tail == PreviousOn(Mesh, v, head)
            n == remove(Mesh, v, middle)
        IN  /\ vertex[v].m_size = 3
            /\ Cardinality({head, middle, tail}) = 3
            /\ NextOn(n, v, head) = tail
            /\ PreviousOn(n, v, tail) = head
            /\ NextOn(n, v, tail) = head
            /\ PreviousOn(n, v, head) = tail
            /\ Edges(n, v) = <<head, tail>>

\* C23. Two-phase ordering of erase(vertex), one statement at a time: each pass
\* of the cascade erases the edge that is last in the vertex's list (the
\* head's predecessor) and leaves the vertex container as it is; the vertex
\* leaves the container only in a step that begins with its list empty and no
\* live edge naming it; the two phases together are erase(vertex) as a whole;
\* and from the call up to that step the vertex is in the container and every
\* edge still incident to it has both endpoints in the container.
C23_TwoPhaseErase ==
    [][ LET v == last'.arg
        IN  /\ last'.op \in {"erase_cascade", "clear_cascade"} =>
                  LET e == PreviousOn(Mesh, v, vertex[v].m_head)
                  IN  /\ vertex[v].m_size # 0
                      /\ e \in Incident(Mesh, v)
                      /\ Range(edges') = Range(edges) \ {e}
                      /\ vertices' = vertices
                      /\ vertex'[v].m_size = vertex[v].m_size - 1
                      /\ vertex_erase(Mesh', v) = vertex_erase(Mesh, v)
            /\ last'.op \in {"erase_done", "clear_erased"} =>
                  /\ vertex[v].m_size = 0
                  /\ Incident(Mesh, v) = {}
                  /\ v \in Range(vertices)
                  /\ v \notin Range(vertices')
                  /\ edges' = edges
                  /\ Mesh' = vertex_erase(Mesh, v)
            /\ last'.op \in {"erase_call", "erase_cascade", "clear_erase", "clear_cascade"} =>
                  /\ v \in Range(vertices')
                  /\ vertex'[v].m_vertex = v
                  /\ Range(Edges(Mesh', v)) = Incident(Mesh', v)
                  /\ \A x \in Incident(Mesh', v) : Endpoints(Mesh', x) \subseteq Range(vertices')
      ]_vars

\* erase(vertex) is between two passes of its cascade: the first pass erased
\* one of the three edges of the vertex, two edges are still incident to it,
\* and the vertex is still in the container.
C23_Witness ==
    /\ last.op = "erase_cascade"
    /\ last.edges = 3
    /\ Len(edges) = 2
    /\ last.arg \in Range(vertices)
    /\ vertex[last.arg].m_size = 2
    /\ Cardinality(Incident(Mesh, last.arg)) = 2

\* C24. clear() of the vertex container erases back-to-front, one statement at
\* a time: every vertex it passes to erase() is the last element of the
\* container at that moment; in every step of clear() the container afterwards
\* is a prefix of the container before, so each surviving vertex keeps its
\* slot and its index, and every slot holds the vertex whose index names it;
\* the erase() that returns has dropped exactly the last slot; and clear()
\* returns with the container empty.
C24_ClearBackToFront ==
    [][ /\ last'.op = "clear_erase" =>
              /\ last'.arg = vertices[Len(vertices)]
              /\ vertex[last'.arg].m_index = Len(vertices) - 1
        /\ last'.op \in {"clear_erase", "clear_cascade", "clear_erased", "clear_done"} =>
              /\ Len(vertices') <= Len(vertices)
              /\ vertices' = SubSeq(vertices, 1, Len(vertices'))
              /\ \A u \in Range(vertices') : vertex'[u].m_index = vertex[u].m_index
              /\ \A k \in 1..Len(vertices') : vertex'[vertices'[k]].m_index = k - 1
        /\ last'.op = "clear_erased" =>
              /\ last'.arg = vertices[Len(vertices)]
              /\ vertices' = SubSeq(vertices, 1, Len(vertices) - 1)
        /\ last'.op = "clear_done" => Len(vertices') = 0
      ]_vars

\* An erase() made by clear() has returned: it dropped the third of three
\* vertices, the two survivors sit in their slots with indices 0 and 1, and an
\* edge between them is still live.
C24_Witness ==
    /\ last.op = "clear_erased"
    /\ last.size = 3
    /\ last.index = 2
    /\ Len(vertices) = 2
    /\ vertex[vertices[1]].m_index = 0
    /\ vertex[vertices[2]].m_index = 1
    /\ Len(edges) >= 1

\* The link fields of edge x that differ between mesh m and mesh n, as sides.
WrittenSides(m, n, x) ==
    {s \in 0..1 : \/ n.edge[x].m_vertex_next[s + 1] # m.edge[x].m_vertex_next[s + 1]
                  \/ n.edge[x].m_vertex_previous[s + 1] # m.edge[x].m_vertex_previous[s + 1]}

\* Every link written between m and n is on the side that the rule gives for
\* the list of v: side 1 when the edge's side-1 endpoint is v, else side 0.
OnResolvedSide(m, n, v) ==
    \A x \in EdgeIds :
        WrittenSides(m, n, x) \subseteq {IF m.edge[x].m_vertices[2] = v THEN 1 ELSE 0}

\* C25. Side resolution: in every reachable state, for every live vertex v and
\* live edge e the side used by v's list is 1 exactly when e's side-1 endpoint
\* is v and 0 otherwise, for an edge incident to v it is the side whose
\* endpoint is v, and every link that remove() or either push_back() of an
\* insertion writes (on the edge itself, the head, or a neighbour) is on the
\* side given by that rule.
C25_SideResolution ==
    /\ \A v \in LiveVertices :
          /\ vertex[v].m_vertex = v
          /\ \A e \in LiveEdges :
                /\ Side(Mesh, v, e) = 1 <=> edge[e].m_vertices[2] = v
                /\ Side(Mesh, v, e) = 0 <=> edge[e].m_vertices[2] # v
                /\ e \in Incident(Mesh, v) => edge[e].m_vertices[Side(Mesh, v, e) + 1] = v
    /\ \A e \in LiveEdges :
          \A v \in Endpoints(Mesh, e) : OnResolvedSide(Mesh, remove(Mesh, v, e), v)
    /\ \A id \in EdgeIds \ LiveEdges :
          \A a \in LiveVertices : \A b \in LiveVertices \ {a} :
              LET m0 == edge_construct(Mesh, id, a, b)
                  m1 == push_back(m0, a, id)
                  m2 == push_back(m1, b, id)
              IN  /\ OnResolvedSide(m0, m1, a)
                  /\ OnResolvedSide(m1, m2, b)

\* add_edge put a new edge behind the tail of its second endpoint's list: the
\* new edge is in that list on side 1 while the head of the list is in it on
\* side 0, the head's side-0 previous is the new edge, and a third live edge
\* is not incident to the vertex and resolves to side 0.
C25_Witness ==
    /\ last.op = "add_edge"
    /\ LET e == last.arg
           v == edge[e].m_vertices[2]
           head == vertex[v].m_head
       IN  /\ head # e
           /\ Side(Mesh, v, e) = 1
           /\ Side(Mesh, v, head) = 0
           /\ edge[head].m_vertices[1] = v
           /\ edge[head].m_vertex_previous[1] = e
           /\ edge[e].m_vertex_next[2] = head
           /\ \E x \in LiveEdges : x \notin Incident(Mesh, v) /\ Side(Mesh, v, x) = 0

\* The sum of the edge counts of the vertices in sequence s.
RECURSIVE CountSum(_, _)
CountSum(m, s) ==
    IF Len(s) = 0 THEN 0 ELSE EdgeCount(m, Head(s)) + CountSum(m, Tail(s))

\* C26. Handshake: in every reachable state the edge counts of the live
\* vertices add up to twice the number of live edges; every add_edge step
\* raises the sum by two and every erase_edge step lowers it by two.
C26_Handshake ==
    [][ /\ CountSum(Mesh', vertices') = 2 * Len(edges')
        /\ last'.op = "add_edge" =>
              CountSum(Mesh', vertices') = CountSum(Mesh, vertices) + 2
        /\ last'.op = "erase_edge" =>
              CountSum(Mesh', vertices') = CountSum(Mesh, vertices) - 2
      ]_vars

\* add_edge completed a mesh whose three vertices have 3, 2 and 1 edges: the
\* counts add up to 6 for 3 edges.
C26_Witness ==
    /\ last.op = "add_edge"
    /\ Len(edges) = 3
    /\ Len(vertices) = 3
    /\ {EdgeCount(Mesh, v) : v \in LiveVertices} = {1, 2, 3}
    /\ CountSum(Mesh, vertices) = 6

\* C27. The size counter never wraps: in every state of the public operations,
\* the states between the statements of erase(vertex) and clear() included, no
\* size counter exceeds the number of live edges, every live edge is in the
\* list of each of its endpoints when the two remove() calls of its erasure
\* reach it, each call finds a size of at least 1 and leaves exactly one
\* less, and the edge that the next pass of a cascade erases is a live edge.
C27_SizeNeverWraps ==
    /\ \A v \in VertexIds : vertex[v].m_size <= Len(edges)
    /\ \A e \in LiveEdges :
          LET a == edge[e].m_vertices[1]
              b == edge[e].m_vertices[2]
              m1 == remove(Mesh, a, e)
              m2 == remove(m1, b, e)
          IN  /\ e \in Range(Edges(Mesh, a))
              /\ vertex[a].m_size >= 1
              /\ m1.vertex[a].m_size = vertex[a].m_size - 1
              /\ e \in Range(Edges(m1, b))
              /\ m1.vertex[b].m_size >= 1
              /\ m2.vertex[b].m_size = m1.vertex[b].m_size - 1
              /\ m2.vertex[a].m_size = m1.vertex[a].m_size
    /\ (InErase /\ vertex[last.arg].m_size # 0) =>
          PreviousOn(Mesh, last.arg, vertex[last.arg].m_head) \in Incident(Mesh, last.arg)

\* erase(vertex) is before the last pass of its cascade: the one edge left in
\* the vertex's list is also the only edge of its other endpoint, so the two
\* remove() calls of the pass will each take a counter from 1 to 0.
C27_Witness ==
    /\ last.op = "erase_cascade"
    /\ last.edges = 2
    /\ LET v == last.arg
           e == vertex[v].m_head
       IN  /\ vertex[v].m_size = 1
           /\ e \in LiveEdges
           /\ \A u \in Endpoints(Mesh, e) : vertex[u].m_size = 1
           /\ \A u \in Endpoints(Mesh, e) : edge_erase(Mesh, e).vertex[u].m_size = 0

\* The mesh with the head of v's list set to null, as in a list never used.
FreshList(m, v) == [m EXCEPT !.vertex[v].m_head = NULL]

\* The lists of mesh m are circular in both directions and hold exactly the
\* incident edges.
ListsIntact(m) ==
    \A w \in Range(m.vertices) :
        /\ Range(Edges(m, w)) = Incident(m, w)
        /\ Cardinality(Incident(m, w)) = m.vertex[w].m_size
        /\ m.vertex[w].m_size # 0 =>
              Advance(m, w, m.vertex[w].m_head, m.vertex[w].m_size) = m.vertex[w].m_head
        /\ \A x \in Incident(m, w) :
              /\ PreviousOn(m, w, NextOn(m, w, x)) = x
              /\ NextOn(m, w, PreviousOn(m, w, x)) = x

\* C28. An emptied list behaves like a fresh one: in every reachable state,
\* for every live vertex v whose list has size 0, whatever its head holds,
\* the cascade of erase(v) erases nothing and erase(v) gives what it gives
\* for a null head, and every insertion of an edge at v (as either endpoint)
\* gives what it gives for a null head: the new edge is the head and the only
\* edge of the walk, and all lists are intact afterwards.
C28_EmptiedListIsFresh ==
    \A v \in LiveVertices :
        vertex[v].m_size = 0 =>
          /\ erase_edges(Mesh, v) = Mesh
          /\ erase_iterations(Mesh, v, 1) = 0
          /\ vertex_erase(Mesh, v) = vertex_erase(FreshList(Mesh, v), v)
          /\ \A id \in EdgeIds \ LiveEdges : \A u \in LiveVertices \ {v} :
                \A ends \in {<<v, u>>, <<u, v>>} :
                    LET n == edge_emplace_back(Mesh, id, ends[1], ends[2])
                    IN  /\ n = edge_emplace_back(FreshList(Mesh, v), id, ends[1], ends[2])
                        /\ n.vertex[v].m_head = id
                        /\ n.vertex[v].m_size = 1
                        /\ Edges(n, v) = <<id>>
                        /\ ListsIntact(n)
                        /\ ListsIntact(vertex_erase(n, v))

\* erase_edge emptied the list of a vertex and left its head naming the
\* erased edge; the address was then given to a new edge between two other
\* vertices, so the stale head names a live edge that is not incident to the
\* vertex, and another edge can still be inserted at the vertex.
C28_Witness ==
    /\ last.op = "add_edge"
    /\ Len(edges) < MaxEdges
    /\ \E v \in LiveVertices :
          /\ vertex[v].m_size = 0
          /\ vertex[v].m_head = last.arg
          /\ last.arg \in LiveEdges
          /\ last.arg \notin Incident(Mesh, v)
          /\ \E u \in LiveVertices \ {v} : vertex[u].m_size # 0

\* C29. An edge whose two endpoints are the same vertex v: add_edge(v, v)
\* pushes it onto v's list twice, through side 1 both times: v's count is two
\* more than before, the iteration of v's list is the former iteration
\* followed by the edge twice, so it gains one distinct edge while v gains one
\* incident edge, the edge's side-1 links name the edge itself, and its side-0
\* links are still null.
C29_SelfLoopPushedTwice ==
    [][ last'.op = "add_loop" =>
          LET e == last'.arg
              v == edge'[e].m_vertices[1]
          IN  /\ edge'[e].m_vertices = <<v, v>>
              /\ Side(Mesh', v, e) = 1
              /\ vertex'[v].m_size = vertex[v].m_size + 2
              /\ iterate_edges(Mesh', v) = iterate_edges(Mesh, v) \o <<e, e>>
              /\ Range(iterate_edges(Mesh', v)) = Range(iterate_edges(Mesh, v)) \cup {e}
              /\ Incident(Mesh', v) = Incident(Mesh, v) \cup {e}
              /\ e \notin Incident(Mesh, v)
              /\ edge'[e].m_vertex_next[2] = e
              /\ edge'[e].m_vertex_previous[2] = e
              /\ edge'[e].m_vertex_next[1] = NULL
              /\ edge'[e].m_vertex_previous[1] = NULL
              /\ \A u \in VertexIds \ {v} : vertex'[u] = vertex[u]
      ]_vars

\* add_edge(v, v) on a vertex that had one edge: the count is 3, the iteration
\* is the old edge followed by the new edge twice, and two edges are incident.
C29_Witness ==
    /\ last.op = "add_loop"
    /\ LET e == last.arg
           v == edge[e].m_vertices[1]
       IN  /\ edge[e].m_vertices[2] = v
           /\ vertex[v].m_size = 3
           /\ vertex[v].m_head # e
           /\ iterate_edges(Mesh, v) = <<vertex[v].m_head, e, e>>
           /\ Cardinality(Incident(Mesh, v)) = 2
           /\ edge[e].m_vertex_next[1] = NULL

\* C30. remove(edge) leaves the removed edge's own links alone: in every
\* reachable state, for every live edge e and each endpoint v, after remove()
\* on v's list the record of e is what it was, so its next and previous on
\* v's side still name its former successor and predecessor; the only fields
\* that differ are the "next" of the former predecessor and the "previous" of
\* the former successor on v's side, and the head and size of v's list.
C30_RemovedEdgeKeepsLinks ==
    \A e \in LiveEdges :
        \A v \in Endpoints(Mesh, e) :
            LET n == remove(Mesh, v, e)
                p == PreviousOn(Mesh, v, e)
                x == NextOn(Mesh, v, e)
            IN  /\ n.edge[e] = edge[e]
                /\ NextOn(n, v, e) = x
                /\ PreviousOn(n, v, e) = p
                /\ n.vertices = vertices
                /\ n.edges = edges
                /\ \A u \in VertexIds :
                      /\ n.vertex[u].m_index = vertex[u].m_index
                      /\ n.vertex[u].m_vertex = vertex[u].m_vertex
                      /\ u # v => n.vertex[u] = vertex[u]
                /\ \A y \in EdgeIds :
                      /\ n.edge[y].m_index = edge[y].m_index
                      /\ n.edge[y].m_vertices = edge[y].m_vertices
                      /\ \A s \in 1..2 :
                            /\ n.edge[y].m_vertex_next[s] # edge[y].m_vertex_next[s] =>
                                  y = p /\ y # e /\ s = VSide(Mesh, v, y) + 1
                            /\ n.edge[y].m_vertex_previous[s] # edge[y].m_vertex_previous[s] =>
                                  y = x /\ y # e /\ s = VSide(Mesh, v, y) + 1

\* A vertex has three edges: after remove() of the middle one the head and the
\* tail name each other, while the removed edge still names the tail as its
\* next and the head as its previous.
C30_Witness ==
    \E v \in LiveVertices :
        LET head == vertex[v].m_head
            middle == NextOn(Mesh, v, head)
            tail == PreviousOn(Mesh, v, head)
            n == remove(Mesh, v, middle)
        IN  /\ vertex[v].m_size = 3
            /\ Cardinality({head, middle, tail}) = 3
            /\ NextOn(n, v, middle) = tail
            /\ PreviousOn(n, v, middle) = head
            /\ NextOn(n, v, head) = tail
            /\ n.vertex[v].m_size = 2
            /\ n.edge[middle] = edge[middle]

====
